---- MODULE Spec2Model ----
(***************************************************************************)
(* State-machine model of the SoapySDR streaming engine of the bladeRF     *)
(* driver (bladeRF_Streaming.cpp): stream setup and close, the RX command  *)
(* queue (activateStream / deactivateStream / readStream) and the TX burst *)
(* state machine with its status-event queue (writeStream /                *)
(* deactivateStream / readStreamStatus).                                   *)
(*                                                                         *)
(* Bit masks (SoapySDR flags, bladerf metadata flags and status) are       *)
(* modelled as sets of flag names: (x & F) != 0 is F \in x, x |= F is      *)
(* x \cup {F}, x &= ~F is x \ {F}, and x = 0 is x = {}.                    *)
(*                                                                         *)
(* The device (libbladeRF) is the environment: every outcome of a          *)
(* synchronous call is a nondeterministic choice.  Sample data and its     *)
(* format conversion are not part of the state.                            *)
(***************************************************************************)
EXTENDS Integers, Sequences, FiniteSets, TLC

(***************************************************************************)
(* Bounds of the model.                                                    *)
(***************************************************************************)
\* longest RX command queue explored
MaxCmds == 2
\* the buffer length (in elements) chosen at setup
MaxBuffLen == 2
\* longest TX status queue explored
MaxResps == 2
\* cap of the TX next-expected tick
MaxTicks == 5

(***************************************************************************)
(* Names of the program's constants.                                       *)
(***************************************************************************)
SOAPY_SDR_RX == "RX"
SOAPY_SDR_TX == "TX"
Directions == {SOAPY_SDR_RX, SOAPY_SDR_TX}

SOAPY_SDR_END_BURST == "END_BURST"
SOAPY_SDR_HAS_TIME == "HAS_TIME"

\* SoapySDR result codes (negative ints; a non-negative result is a count)
SOAPY_SDR_TIMEOUT == -1
SOAPY_SDR_STREAM_ERROR == -2
SOAPY_SDR_OVERFLOW == -4
SOAPY_SDR_NOT_SUPPORTED == -5
SOAPY_SDR_TIME_ERROR == -6
SOAPY_SDR_UNDERFLOW == -7

BLADERF_META_FLAG_RX_NOW == "RX_NOW"
BLADERF_META_FLAG_TX_BURST_START == "TX_BURST_START"
BLADERF_META_FLAG_TX_BURST_END == "TX_BURST_END"
BLADERF_META_FLAG_TX_NOW == "TX_NOW"
BLADERF_META_FLAG_TX_UPDATE_TIMESTAMP == "TX_UPDATE_TIMESTAMP"
BLADERF_META_STATUS_OVERRUN == "OVERRUN"
BLADERF_META_STATUS_UNDERRUN == "UNDERRUN"

\* return values of the device's synchronous calls
BLADERF_OK == "0"
BLADERF_ERR_TIMEOUT == "BLADERF_ERR_TIMEOUT"
BLADERF_ERR_TIME_PAST == "BLADERF_ERR_TIME_PAST"
BLADERF_ERR_IO == "BLADERF_ERR_IO"
DevRets == {BLADERF_OK, BLADERF_ERR_TIMEOUT, BLADERF_ERR_TIME_PAST, BLADERF_ERR_IO}

SOAPY_SDR_CS16 == "CS16"
SOAPY_SDR_CF32 == "CF32"

Min(a, b) == IF a < b THEN a ELSE b

(***************************************************************************)
(* Tick/time conversion.  The converters live in the driver's header and   *)
(* settings code; they are modelled after SoapySDR's ticksToTimeNs /       *)
(* timeNsToTicks: a rational scaling by the sample rate, rounded to the    *)
(* nearest integer.  To stay within 32-bit arithmetic the clock is scaled: *)
(* one second is NsPerSec time units.                                      *)
(***************************************************************************)
NsPerSec == 1000
\* sample rate of the RX and TX streams, in ticks per second
RxSampRate == 7
TxSampRate == 7

RoundDiv(a, b) == (2 * a + b) \div (2 * b)

ticksToTimeNs(ticks, rate) == RoundDiv(ticks * NsPerSec, rate)

timeNsToTicks(timeNs, rate) == RoundDiv(timeNs * rate, NsPerSec)

_rxTicksToTimeNs(ticks) == ticksToTimeNs(ticks, RxSampRate)

_timeNsToRxTicks(timeNs) == timeNsToTicks(timeNs, RxSampRate)

_txTicksToTimeNs(ticks) == ticksToTimeNs(ticks, TxSampRate)

_timeNsToTxTicks(timeNs) == timeNsToTicks(timeNs, TxSampRate)

(***************************************************************************)
(* Inputs of the calls.                                                    *)
(***************************************************************************)
\* a caller's flag words
FlagWords == {{}, {SOAPY_SDR_HAS_TIME}, {SOAPY_SDR_END_BURST}, {SOAPY_SDR_HAS_TIME, SOAPY_SDR_END_BURST}}
\* flag words given to deactivateStream and to activateStream on a TX stream
ControlFlags == {{}, {SOAPY_SDR_END_BURST}}
\* the timestamp a caller passes along with a flag word: half a second with
\* the time flag, 0 without
TimeOf(flags) == IF SOAPY_SDR_HAS_TIME \in flags THEN NsPerSec \div 2 ELSE 0
\* flag words given to activateStream on an RX stream: none, and the time flag
\* together with a flag the receive path has no use for
ActivateFlags == {{}, {SOAPY_SDR_HAS_TIME, SOAPY_SDR_END_BURST}}
\* element counts requested from readStream and writeStream
ElemCounts == {1, MaxBuffLen, MaxBuffLen + 1}
\* element counts given to activateStream: continuous, one element, and more
\* than a buffer
CmdCounts == {0, 1, MaxBuffLen + 1}
\* the counts a device receive of n samples may report: all of them, or one less
ActualCounts(n) == {n} \cup (IF n > 0 THEN {n - 1} ELSE {})
\* timestamps the device reports for the first sample of a receive "now"
RxDevTicks == {3}
\* the direction value of an engine instance that streams in both directions
SessionBoth == "RXTX"
\* the values of the device's tick counter that are told apart: past the last
\* of them every tick the engine can have recorded lies behind
MaxHwTicks == MaxTicks + 1
\* timeouts given to readStreamStatus, in polling intervals (1000 us each)
Timeouts == {0, 1}

(***************************************************************************)
(* The state.                                                              *)
(***************************************************************************)
VARIABLES
    session,        \* the direction(s) this engine instance streams in
    streams,        \* directions with an open stream handle (new int(direction))
    _sample_format, \* native sample format, shared by both directions
    sessionFormat,  \* history: the format each open stream was configured with
    hwTicks,        \* the device's tick counter
    poll,           \* the readStreamStatus call in progress, if any
    delivered,      \* history: parity of the number of status events delivered
    _rxOverflow,    \* overflow seen by the last device receive, not yet reported
    _rxChans,       \* channel list of the RX stream
    _rxFloats,      \* RX stream converts to CF32
    _rxBuffSize,    \* RX buffer length in elements
    _rxCmds,        \* queue of RX commands: [flags, timeNs, numElems]
    _rxNextTicks,   \* tick following the last received sample
    _inTxBurst,     \* a TX burst is open
    _txChans,       \* channel list of the TX stream
    _txFloats,      \* TX stream converts from CF32
    _txBuffSize,    \* TX buffer length in elements
    _txNextTicks,   \* tick following the last transmitted sample
    _txResps,       \* queue of TX status events: [flags, timeNs, code]
    devTxBurst,     \* device side: a burst was started and not ended
    cmdLog,         \* history, one entry per queued RX command: the count and
                    \* flags it was activated with (timed: the time flag), the
                    \* elements got, whether a device call was made for it
    last            \* the last call: its inputs, its device calls and its results

rxVars == <<_rxOverflow, _rxChans, _rxFloats, _rxBuffSize, _rxCmds, _rxNextTicks, cmdLog>>
txVars == <<_inTxBurst, _txChans, _txFloats, _txBuffSize, _txNextTicks, _txResps, devTxBurst>>
envVars == <<hwTicks, poll, delivered>>
vars == <<session, streams, _sample_format, sessionFormat, rxVars, txVars, envVars, last>>

\* The record of a call: its inputs (req the element count, inFlags the flag
\* word), its result ret (threw: it ended by an exception), the reference
\* parameters flags and timeNs as the call leaves them (wrote: the call assigned
\* them), dev the sequence of synchronous transfer calls it made to the device,
\* removed the history entries of the RX commands a read took off the queue,
\* and conv the width in bits a read took the native samples to have when it
\* converted them (0: it converted nothing).
Call(op, dir, req, inFlags, ret, threw, wrote, flags, timeNs, dev) ==
    [op |-> op, dir |-> dir, req |-> req, inFlags |-> inFlags, ret |-> ret,
     threw |-> threw, wrote |-> wrote, flags |-> flags, timeNs |-> timeNs, dev |-> dev,
     removed |-> <<>>, conv |-> 0]

\* A synchronous transfer call: n samples, the metadata flags and timestamp
\* passed in, the return value, and the status word the device wrote back.
DevCall(fn, n, flags, timestamp, ret, status) ==
    [fn |-> fn, n |-> n, flags |-> flags, timestamp |-> timestamp, ret |-> ret,
     status |-> status]

NoCall == Call("none", "none", 0, {}, 0, FALSE, FALSE, {}, 0, <<>>)

\* no status poll in progress
NoPoll == [pc |-> "idle", timeLeft |-> 0, sleep |-> 0]

\* the caller of this direction's stream is between two calls
Ready(direction) ==
    /\ session \in {direction, SessionBoth}
    /\ poll.pc = "idle"

InitState ==
    /\ streams = {}
    /\ _sample_format = "sc16_meta"
    /\ sessionFormat = [d \in Directions |-> "none"]
    /\ hwTicks = 2
    /\ poll = NoPoll
    /\ delivered = FALSE
    /\ _rxOverflow = FALSE
    /\ _rxChans = <<>>
    /\ _rxFloats = FALSE
    /\ _rxBuffSize = 0
    /\ _rxCmds = <<>>
    /\ _rxNextTicks = 0
    /\ _inTxBurst = FALSE
    /\ _txChans = <<>>
    /\ _txFloats = FALSE
    /\ _txBuffSize = 0
    /\ _txNextTicks = 0
    /\ _txResps = <<>>
    /\ devTxBurst = FALSE
    /\ cmdLog = <<>>
    /\ last = NoCall

Init ==
    /\ session \in Directions
    /\ InitState

\* an engine instance with a stream of each direction
InitBoth ==
    /\ session = SessionBoth
    /\ InitState

(***************************************************************************)
(* setupStream                                                             *)
(***************************************************************************)
\* the "format" stream argument and what it selects; absent selects sc16_meta
SampleFormatOf(arg) == IF arg = "absent" THEN "sc16_meta" ELSE arg
ValidSampleFormats == {"sc16", "sc16_meta", "sc8", "sc8_meta", "sc16_packed"}

\* an empty channel list stands for channel 0
ChannelsOf(channels_) == IF channels_ = <<>> THEN <<0>> ELSE channels_
ValidChannels(channels) ==
    \/ Len(channels) = 1 /\ channels[1] \in {0, 1}
    \/ Len(channels) = 2 /\ channels[1] = 0 /\ channels[2] = 1

\* The arguments setupStream is called with: <<"format" argument, channel
\* list, stream format>>.  Two valid configurations, and one with each kind of
\* invalid argument.
SetupArgs ==
    {<<"absent", <<>>, SOAPY_SDR_CS16>>,
     <<"sc8", <<0, 1>>, SOAPY_SDR_CF32>>,
     <<"bogus", <<>>, SOAPY_SDR_CS16>>,
     <<"sc8", <<1, 0>>, SOAPY_SDR_CS16>>,
     <<"absent", <<>>, "CU8">>}

\* Buffer lengths a successful setup ends with: the argument rounded up to
\* the transfer granule, always positive.
BuffLens == {MaxBuffLen}

\* A setup that throws: the sample format argument is rejected before anything
\* is assigned; every later failure (channel selection, stream format, device
\* configuration or channel enable: devOk is false) happens after
\* _sample_format was assigned.
setupThrows(direction, sampleFormat) ==
    /\ _sample_format' =
          IF sampleFormat \in ValidSampleFormats THEN sampleFormat ELSE _sample_format
    /\ last' = Call("setupStream", direction, 0, {}, 0, TRUE, FALSE, {}, 0, <<>>)
    /\ UNCHANGED <<session, streams, sessionFormat, envVars, rxVars, txVars>>

setupStreamOf(direction, SetupArgsOf) ==
    /\ Ready(direction)
    /\ direction \notin streams
    /\ \E args \in SetupArgsOf, bufSize \in BuffLens, devOk \in BOOLEAN :
        LET channels == ChannelsOf(args[2])
            sampleFormat == SampleFormatOf(args[1])
            format == args[3]
        IN  IF \/ sampleFormat \notin ValidSampleFormats
               \/ ~ValidChannels(channels)
               \/ format \notin {SOAPY_SDR_CF32, SOAPY_SDR_CS16}
               \/ ~devOk
            THEN setupThrows(direction, sampleFormat)
            ELSE /\ _sample_format' = sampleFormat
                 /\ sessionFormat' = [sessionFormat EXCEPT ![direction] = sampleFormat]
                 /\ streams' = streams \cup {direction}
                 /\ UNCHANGED <<session, envVars>>
                 /\ last' = Call("setupStream", direction, 0, {}, 0, FALSE, FALSE, {}, 0, <<>>)
                 /\ IF direction = SOAPY_SDR_RX
                    THEN /\ _rxOverflow' = FALSE
                         /\ _rxChans' = channels
                         /\ _rxFloats' = (format = SOAPY_SDR_CF32)
                         /\ _rxBuffSize' = bufSize
                         /\ UNCHANGED <<_rxCmds, _rxNextTicks, cmdLog, txVars>>
                    ELSE /\ _txFloats' = (format = SOAPY_SDR_CF32)
                         /\ _txChans' = channels
                         /\ _txBuffSize' = bufSize
                         /\ _inTxBurst' = FALSE
                         /\ UNCHANGED <<_txNextTicks, _txResps, devTxBurst, rxVars>>

setupStream(direction) == setupStreamOf(direction, SetupArgs)

(***************************************************************************)
(* closeStream: disables the channels, clears the channel list and frees   *)
(* the handle; a failing disable throws before anything is changed.        *)
(* Disabling the TX channels ends whatever burst the device had open.      *)
(***************************************************************************)
closeStream(direction) ==
    /\ Ready(direction)
    /\ direction \in streams
    /\ \E disableOk \in BOOLEAN :
        IF ~disableOk
        THEN /\ last' = Call("closeStream", direction, 0, {}, 0, TRUE, FALSE, {}, 0, <<>>)
             /\ UNCHANGED <<session, streams, _sample_format, sessionFormat, envVars, rxVars, txVars>>
        ELSE /\ streams' = streams \ {direction}
             /\ sessionFormat' = [sessionFormat EXCEPT ![direction] = "none"]
             /\ UNCHANGED <<session, envVars>>
             /\ last' = Call("closeStream", direction, 0, {}, 0, FALSE, FALSE, {}, 0, <<>>)
             /\ IF direction = SOAPY_SDR_RX
                THEN /\ _rxChans' = <<>>
                     /\ UNCHANGED <<_rxOverflow, _rxFloats, _rxBuffSize, _rxCmds,
                                    _rxNextTicks, cmdLog, txVars>>
                ELSE /\ _txChans' = <<>>
                     /\ devTxBurst' = FALSE
                     /\ UNCHANGED <<_inTxBurst, _txFloats, _txBuffSize, _txNextTicks,
                                    _txResps, rxVars>>
             /\ UNCHANGED _sample_format

(***************************************************************************)
(* activateStream                                                          *)
(***************************************************************************)
\* the command activateStream builds from its arguments
NewCmd(flags, timeNs, numElems) ==
    [flags |-> flags, timeNs |-> timeNs, numElems |-> numElems]

\* _rxCmds.push(cmd)
PushCmd(cmds, cmd) == Append(cmds, cmd)

activateStreamRxOf(ActivateFlagsOf, CmdCountsOf) ==
    /\ Ready(SOAPY_SDR_RX)
    /\ SOAPY_SDR_RX \in streams
    /\ Len(_rxCmds) < MaxCmds
    /\ \E flags \in ActivateFlagsOf, numElems \in CmdCountsOf :
        /\ _rxCmds' = PushCmd(_rxCmds, NewCmd(flags, TimeOf(flags), numElems))
        /\ cmdLog' = Append(cmdLog, [count |-> numElems, got |-> 0,
                                     timed |-> SOAPY_SDR_HAS_TIME \in flags,
                                     called |-> FALSE])
        /\ last' = Call("activateStream", SOAPY_SDR_RX, numElems, flags, 0,
                        FALSE, FALSE, {}, 0, <<>>)
    /\ UNCHANGED <<session, streams, _sample_format, sessionFormat, envVars, _rxOverflow, _rxChans, _rxFloats,
                   _rxBuffSize, _rxNextTicks, txVars>>

activateStreamRx == activateStreamRxOf(ActivateFlags, CmdCounts)

\* the result of activateStream on a TX stream
ActivateTxResult(flags) == IF flags # {} THEN SOAPY_SDR_NOT_SUPPORTED ELSE 0

activateStreamTx ==
    /\ Ready(SOAPY_SDR_TX)
    /\ SOAPY_SDR_TX \in streams
    /\ \E flags \in ControlFlags :
        last' = Call("activateStream", SOAPY_SDR_TX, 0, flags, ActivateTxResult(flags),
                     FALSE, FALSE, {}, 0, <<>>)
    /\ UNCHANGED <<session, streams, _sample_format, sessionFormat, envVars, rxVars, txVars>>

(***************************************************************************)
(* deactivateStream                                                        *)
(***************************************************************************)
\* (mutant) deactivateStream without its flags check
DeactivateRejectsNothing(flags) == FALSE

\* flags != 0 is rejected before the direction is looked at
DeactivateRejects(flags) == flags # {}

\* (mutant) deactivating drops the command in progress only
ClearHead(cmds) == IF cmds = <<>> THEN cmds ELSE Tail(cmds)

\* clear all commands when deactivating
ClearCmds(cmds) == <<>>

deactivateStreamRx ==
    /\ Ready(SOAPY_SDR_RX)
    /\ SOAPY_SDR_RX \in streams
    /\ \E flags \in ControlFlags :
        IF DeactivateRejects(flags)
        THEN /\ last' = Call("deactivateStream", SOAPY_SDR_RX, 0, flags,
                             SOAPY_SDR_NOT_SUPPORTED, FALSE, FALSE, {}, 0, <<>>)
             /\ UNCHANGED <<_rxCmds, cmdLog>>
        ELSE /\ _rxCmds' = ClearCmds(_rxCmds)
             /\ cmdLog' = SubSeq(cmdLog, Len(cmdLog) - Len(_rxCmds') + 1, Len(cmdLog))
             /\ last' = Call("deactivateStream", SOAPY_SDR_RX, 0, flags, 0,
                             FALSE, FALSE, {}, 0, <<>>)
    /\ UNCHANGED <<session, streams, _sample_format, sessionFormat, envVars, _rxOverflow, _rxChans, _rxFloats,
                   _rxBuffSize, _rxNextTicks, txVars>>

\* (mutant) the burst-end transmission is sent whether a burst is open or not
DeactivateDevCallsAlways(inBurst, ret) ==
    <<DevCall("bladerf_sync_tx", 1, {BLADERF_META_FLAG_TX_BURST_END}, 0, ret, {})>>

\* the burst-end transmission of deactivateStream: one zeroed sample, its
\* result ignored
DeactivateDevCalls(inBurst, ret) ==
    IF inBurst
    THEN <<DevCall("bladerf_sync_tx", 1, {BLADERF_META_FLAG_TX_BURST_END}, 0, ret, {})>>
    ELSE <<>>

\* the device's burst state after a transmit call: a call that fails has no effect
DevBurstAfter(open, mdFlags, ret) ==
    IF ret # BLADERF_OK THEN open
    ELSE IF BLADERF_META_FLAG_TX_BURST_END \in mdFlags THEN FALSE
    ELSE IF BLADERF_META_FLAG_TX_BURST_START \in mdFlags THEN TRUE
    ELSE open

\* (mutant) ending the open burst queues a burst-end event
RespsAfterDeactivateEnd(resps, inBurst, ticks) ==
    IF inBurst
    THEN Append(resps, [flags |-> {SOAPY_SDR_END_BURST, SOAPY_SDR_HAS_TIME},
                        timeNs |-> _txTicksToTimeNs(ticks), code |-> 0])
    ELSE resps

\* deactivateStream pushes no status event and pops none
RespsAfterDeactivate(resps, inBurst, ticks) == resps

deactivateStreamTx ==
    /\ Ready(SOAPY_SDR_TX)
    /\ SOAPY_SDR_TX \in streams
    /\ \E flags \in ControlFlags, ret \in DevRets :
        IF DeactivateRejects(flags)
        THEN /\ ret = BLADERF_OK
             /\ last' = Call("deactivateStream", SOAPY_SDR_TX, 0, flags,
                             SOAPY_SDR_NOT_SUPPORTED, FALSE, FALSE, {}, 0, <<>>)
             /\ UNCHANGED <<_inTxBurst, devTxBurst, _txResps>>
        ELSE /\ _inTxBurst \/ ret = BLADERF_OK
             /\ _inTxBurst' = FALSE
             /\ _txResps' = RespsAfterDeactivate(_txResps, _inTxBurst, _txNextTicks)
             /\ devTxBurst' = IF _inTxBurst
                              THEN DevBurstAfter(devTxBurst, {BLADERF_META_FLAG_TX_BURST_END}, ret)
                              ELSE devTxBurst
             /\ last' = Call("deactivateStream", SOAPY_SDR_TX, 0, flags, 0,
                             FALSE, FALSE, {}, 0, DeactivateDevCalls(_inTxBurst, ret))
    /\ UNCHANGED <<session, streams, _sample_format, sessionFormat, envVars, rxVars, _txChans, _txFloats, _txBuffSize,
                   _txNextTicks>>

(***************************************************************************)
(* readStream                                                              *)
(***************************************************************************)
\* (mutant) the request is passed on as it is
ClipNothing(numElems, buffSize) == numElems

\* numElems = std::min(numElems, buffer length), of readStream and writeStream
ClipToBuff(numElems, buffSize) == Min(numElems, buffSize)

\* (mutant) the command does not bound the read
ClipToCmdNot(cmd, numElems) == numElems

\* a finite command bounds the read by its remaining count
ClipToCmd(cmd, numElems) ==
    IF cmd.numElems > 0 THEN Min(cmd.numElems, numElems) ELSE numElems

\* without the SoapySDR time flag the device receives "now"
RxMetaFlags(cmd) ==
    IF SOAPY_SDR_HAS_TIME \notin cmd.flags THEN {BLADERF_META_FLAG_RX_NOW} ELSE {}

\* (mutant) every failed device transfer is a stream error
ErrorCodeStreamError(ret) == SOAPY_SDR_STREAM_ERROR

\* the result codes of a failed device transfer, of readStream and writeStream
ErrorCode(ret) ==
    IF ret = BLADERF_ERR_TIMEOUT THEN SOAPY_SDR_TIMEOUT
    ELSE IF ret = BLADERF_ERR_TIME_PAST THEN SOAPY_SDR_TIME_ERROR
    ELSE SOAPY_SDR_STREAM_ERROR

\* (mutant) the command keeps its flags
KeepCmdFlags(cmds) == cmds

\* cmd.flags = 0, done before the device call
ClearCmdFlags(cmds) == [cmds EXCEPT ![1].flags = {}]

\* (mutant) a device error removes the head command whatever its count
DropAlways(cmds) == Tail(cmds)

\* a device error other than timeout and time-past removes a finite head command
DropOnError(cmds) == IF cmds[1].numElems > 0 THEN Tail(cmds) ELSE cmds

\* (mutant) the remaining count is tested before it is decremented
ConsumeCmdTestFirst(cmds, numElems) ==
    IF cmds[1].numElems > 0
    THEN [cmds EXCEPT ![1].numElems = @ - numElems]
    ELSE cmds

\* consume numElems from a finite head command; pop it when nothing remains
ConsumeCmd(cmds, numElems) ==
    IF cmds[1].numElems > 0
    THEN IF cmds[1].numElems - numElems = 0
         THEN Tail(cmds)
         ELSE [cmds EXCEPT ![1].numElems = @ - numElems]
    ELSE cmds

\* the width the conversion loops read the native samples with
NativeWidth(sample_format) ==
    IF sample_format \in {"sc8", "sc8_meta"} THEN 8 ELSE 16

\* the conversion of a read: none when the device wrote into the caller's
\* buffer (one channel, CS16), else by the width of _sample_format
RxConvWidth(floats, chans, sample_format) ==
    IF floats \/ Len(chans) = 2 THEN NativeWidth(sample_format) ELSE 0

\* the overflow flag after a successful receive
OverflowAfter(overflow, status) ==
    IF BLADERF_META_STATUS_OVERRUN \in status THEN TRUE ELSE overflow

\* The history of the head command after a read that received numElems
\* elements and left the queue as cmds.
LogAfter(cmds, numElems) ==
    IF Len(cmds) < Len(_rxCmds) THEN Tail(cmdLog)
    ELSE IF cmdLog[1].count > 0
         THEN [cmdLog EXCEPT ![1].got = @ + numElems, ![1].called = TRUE]
    ELSE [cmdLog EXCEPT ![1].called = TRUE]

\* no command: a timeout, before the output parameters are touched
readEmpty(req) ==
    /\ _rxCmds = <<>>
    /\ last' = Call("readStream", SOAPY_SDR_RX, req, {}, SOAPY_SDR_TIMEOUT,
                    FALSE, FALSE, {}, 0, <<>>)
    /\ UNCHANGED <<_rxOverflow, _rxCmds, _rxNextTicks, cmdLog>>

\* a pending overflow is reported instead of receiving
readOverflow(req) ==
    /\ _rxCmds # <<>>
    /\ _rxOverflow
    /\ _rxOverflow' = FALSE
    /\ last' = Call("readStream", SOAPY_SDR_RX, req, {}, SOAPY_SDR_OVERFLOW,
                    FALSE, TRUE, {SOAPY_SDR_HAS_TIME}, _rxTicksToTimeNs(_rxNextTicks), <<>>)
    /\ UNCHANGED <<_rxCmds, _rxNextTicks, cmdLog>>

\* the device receive call and what follows it
readDevice(req) ==
    /\ _rxCmds # <<>>
    /\ ~_rxOverflow
    /\ LET cmd == _rxCmds[1]
           mdFlags == RxMetaFlags(cmd)
           mdTimestamp == _timeNsToRxTicks(cmd.timeNs)
           numElems == ClipToCmd(cmd, ClipToBuff(req, _rxBuffSize))
           used == ClearCmdFlags(_rxCmds)
           n == numElems * Len(_rxChans)
           rx(ret, status) ==
               <<DevCall("bladerf_sync_rx", n, mdFlags, mdTimestamp, ret, status)>>
           gone == IF Len(_rxCmds') < Len(_rxCmds) THEN <<cmdLog[1]>> ELSE <<>>
       IN  \/ \E ret \in {BLADERF_ERR_TIMEOUT, BLADERF_ERR_TIME_PAST} :
                /\ _rxCmds' = used
                /\ last' = Call("readStream", SOAPY_SDR_RX, req, {}, ErrorCode(ret),
                                FALSE, TRUE, {}, 0, rx(ret, {}))
                /\ cmdLog' = LogAfter(_rxCmds', 0)
                /\ UNCHANGED <<_rxOverflow, _rxNextTicks>>
           \/ /\ _rxCmds' = DropOnError(used)
              /\ cmdLog' = LogAfter(_rxCmds', 0)
              /\ last' = [Call("readStream", SOAPY_SDR_RX, req, {}, ErrorCode(BLADERF_ERR_IO),
                               FALSE, TRUE, {}, 0, rx(BLADERF_ERR_IO, {}))
                             EXCEPT !.removed = gone]
              /\ UNCHANGED <<_rxOverflow, _rxNextTicks>>
           \/ \E actual_count \in ActualCounts(n), status \in {{}, {BLADERF_META_STATUS_OVERRUN}},
                 timestamp \in (IF BLADERF_META_FLAG_RX_NOW \in mdFlags
                                THEN RxDevTicks ELSE {mdTimestamp}) :
                LET got == actual_count \div Len(_rxChans)
                IN  /\ _rxOverflow' = OverflowAfter(_rxOverflow, status)
                    /\ _rxCmds' = ConsumeCmd(used, got)
                    /\ cmdLog' = LogAfter(_rxCmds', got)
                    /\ _rxNextTicks' = timestamp + got
                    /\ last' = [Call("readStream", SOAPY_SDR_RX, req, {}, got,
                                     FALSE, TRUE, {SOAPY_SDR_HAS_TIME},
                                     _rxTicksToTimeNs(timestamp), rx(BLADERF_OK, status))
                                EXCEPT !.removed =
                                    IF gone = <<>> THEN <<>>
                                    ELSE <<[gone[1] EXCEPT !.got = @ + got]>>,
                                       !.conv = RxConvWidth(_rxFloats, _rxChans,
                                                            _sample_format)]

readStreamOf(ElemCountsOf) ==
    /\ Ready(SOAPY_SDR_RX)
    /\ SOAPY_SDR_RX \in streams
    /\ \E req \in ElemCountsOf : readEmpty(req) \/ readOverflow(req) \/ readDevice(req)
    /\ UNCHANGED <<session, streams, _sample_format, sessionFormat, envVars, _rxChans, _rxFloats, _rxBuffSize, txVars>>

readStream == readStreamOf(ElemCounts)

(***************************************************************************)
(* writeStream                                                             *)
(***************************************************************************)
\* (mutant) the request is clipped first, so the test never sees it exceed
ClearEOBAfterClip(numElems, flags, buffSize) ==
    IF Min(numElems, buffSize) > buffSize THEN flags \ {SOAPY_SDR_END_BURST} ELSE flags

\* clear EOB when the last sample will not be transmitted
ClearEOB(numElems, flags, buffSize) ==
    IF numElems > buffSize THEN flags \ {SOAPY_SDR_END_BURST} ELSE flags

\* the burst directives of the metadata: continue (with an optional timestamp
\* update) inside a burst, start one otherwise; then the end-of-burst directive
TxMetaFlags(inBurst, flags) ==
    (IF inBurst
     THEN IF SOAPY_SDR_HAS_TIME \in flags
          THEN {BLADERF_META_FLAG_TX_UPDATE_TIMESTAMP} ELSE {}
     ELSE IF SOAPY_SDR_HAS_TIME \in flags
          THEN {BLADERF_META_FLAG_TX_BURST_START}
          ELSE {BLADERF_META_FLAG_TX_BURST_START, BLADERF_META_FLAG_TX_NOW})
    \cup (IF SOAPY_SDR_END_BURST \in flags THEN {BLADERF_META_FLAG_TX_BURST_END} ELSE {})

\* md.timestamp: the caller's time in ticks when one was given, else 0 (memset)
TxMetaTimestamp(flags, timeNs) ==
    IF SOAPY_SDR_HAS_TIME \in flags THEN _timeNsToTxTicks(timeNs) ELSE 0

\* _txNextTicks as assigned while the metadata is built, before the device
\* call: the caller's time, else the device's tick t when a burst starts
\* "now", else unchanged
TxTicksBefore(inBurst, flags, timeNs, t) ==
    IF SOAPY_SDR_HAS_TIME \in flags THEN _timeNsToTxTicks(timeNs)
    ELSE IF inBurst THEN _txNextTicks
    ELSE t

\* A status event.  The underflow event leaves timeNs unassigned: the field
\* holds whatever the stack held, marked here and chosen when it is read.
Uninitialized == 0 - 1
UnderflowResp == [flags |-> {}, timeNs |-> Uninitialized, code |-> SOAPY_SDR_UNDERFLOW]
EndBurstResp(ticks) ==
    [flags |-> {SOAPY_SDR_END_BURST, SOAPY_SDR_HAS_TIME},
     timeNs |-> _txTicksToTimeNs(ticks), code |-> 0]

\* (mutant) the burst-end event is queued ahead of the underflow event
RespsAfterEndFirst(resps, status, flags, ticks) ==
    resps
    \o (IF SOAPY_SDR_END_BURST \in flags THEN <<EndBurstResp(ticks)>> ELSE <<>>)
    \o (IF BLADERF_META_STATUS_UNDERRUN \in status THEN <<UnderflowResp>> ELSE <<>>)

\* the status events a successful write appends
RespsAfter(resps, status, flags, ticks) ==
    resps
    \o (IF BLADERF_META_STATUS_UNDERRUN \in status THEN <<UnderflowResp>> ELSE <<>>)
    \o (IF SOAPY_SDR_END_BURST \in flags THEN <<EndBurstResp(ticks)>> ELSE <<>>)

\* (mutant) the burst is left open by an end-of-burst write
BurstAfterStaysOpen(flags) == TRUE

\* always in a burst after a successful tx, unless it ended the burst
BurstAfter(flags) == SOAPY_SDR_END_BURST \notin flags

\* (mutant) the burst flag is set before the result of the transfer is tested
BurstAfterErrorOpen(inBurst) == TRUE

\* a failed transfer returns before the burst flag is assigned
BurstAfterError(inBurst) == inBurst

writeStreamOf(ElemCountsOf, FlagWordsOf) ==
    /\ Ready(SOAPY_SDR_TX)
    /\ SOAPY_SDR_TX \in streams
    /\ \E req \in ElemCountsOf, inFlags \in FlagWordsOf :
        LET timeNs == TimeOf(inFlags)
            t == hwTicks
            flags == ClearEOB(req, inFlags, _txBuffSize)
            numElems == ClipToBuff(req, _txBuffSize)
            mdFlags == TxMetaFlags(_inTxBurst, flags)
            mdTimestamp == TxMetaTimestamp(flags, timeNs)
            ticks == TxTicksBefore(_inTxBurst, flags, timeNs, t)
            n == numElems * Len(_txChans)
            tx(ret, status) ==
                <<DevCall("bladerf_sync_tx", n, mdFlags, mdTimestamp, ret, status)>>
        IN  /\ \/ \E ret \in DevRets \ {BLADERF_OK} :
                    /\ _txNextTicks' = ticks
                    /\ devTxBurst' = DevBurstAfter(devTxBurst, mdFlags, ret)
                    /\ last' = Call("writeStream", SOAPY_SDR_TX, req, inFlags, ErrorCode(ret),
                                    FALSE, flags # inFlags, flags, timeNs, tx(ret, {}))
                    /\ _inTxBurst' = BurstAfterError(_inTxBurst)
                    /\ UNCHANGED _txResps
               \/ \E status \in {{}, {BLADERF_META_STATUS_UNDERRUN}} :
                    /\ ticks + numElems <= MaxTicks
                    /\ _txNextTicks' = ticks + numElems
                    /\ _txResps' = RespsAfter(_txResps, status, flags, _txNextTicks')
                    /\ Len(_txResps') <= MaxResps
                    /\ _inTxBurst' = BurstAfter(flags)
                    /\ devTxBurst' = DevBurstAfter(devTxBurst, mdFlags, BLADERF_OK)
                    /\ last' = Call("writeStream", SOAPY_SDR_TX, req, inFlags, numElems,
                                    FALSE, flags # inFlags, flags, timeNs, tx(BLADERF_OK, status))
    /\ UNCHANGED <<session, streams, _sample_format, sessionFormat, envVars, rxVars, _txChans, _txFloats, _txBuffSize>>

writeStream == writeStreamOf(ElemCounts, FlagWords)

(***************************************************************************)
(* readStreamStatus on an RX stream: not supported.                        *)
(***************************************************************************)
\* values an unassigned timeNs may be read as
JunkNs == {0, 3}

readStreamStatusRx ==
    /\ Ready(SOAPY_SDR_RX)
    /\ SOAPY_SDR_RX \in streams
    /\ last' = Call("readStreamStatus", SOAPY_SDR_RX, 0, {}, SOAPY_SDR_NOT_SUPPORTED,
                    FALSE, FALSE, {}, 0, <<>>)
    /\ UNCHANGED <<session, streams, _sample_format, sessionFormat, envVars, rxVars, txVars>>

(***************************************************************************)
(* readStreamStatus on a TX stream, followed step by step against the wall *)
(* clock and the device's tick counter.  poll.timeLeft is exitTime - now   *)
(* in polling intervals (negative once exitTime < now), poll.sleep what is *)
(* left of the sleep in progress.                                          *)
(***************************************************************************)
\* the device's tick counter as a time
getHardwareTime == _rxTicksToTimeNs(hwTicks)

\* (mutant) an event with a time is taken for ready whatever the time is
BreaksLoopAnyTime(resps, hwTime) == resps # <<>>

\* the loop is left with the oldest event: it has no time, or its time is
\* before the hardware time
BreaksLoop(resps, hwTime) ==
    IF resps = <<>> THEN FALSE
    ELSE IF SOAPY_SDR_HAS_TIME \notin resps[1].flags THEN TRUE
    ELSE resps[1].timeNs < hwTime

\* std::min<long>(1000, timeLeft.count()) microseconds, in polling intervals
SleepFor(timeLeft) == IF timeLeft >= 1 THEN 1 ELSE 0

\* (mutant) the deadline is never found expired
DeadlineNever(timeLeft) == FALSE

\* exitTime < now
DeadlinePassed(timeLeft) == timeLeft < 0

\* the call is entered: exitTime = now + timeoutUs; until it returns there is
\* no record of a returned call
statusBeginOf(TimeoutsOf) ==
    /\ Ready(SOAPY_SDR_TX)
    /\ SOAPY_SDR_TX \in streams
    /\ \E timeoutUs \in TimeoutsOf :
        poll' = [pc |-> "check", timeLeft |-> timeoutUs, sleep |-> 0]
    /\ last' = NoCall
    /\ UNCHANGED <<session, streams, _sample_format, sessionFormat, rxVars, txVars, hwTicks, delivered>>

statusBegin == statusBeginOf(Timeouts)

\* the head of the loop; when it is left the oldest event is extracted
statusCheck ==
    /\ poll.pc = "check"
    /\ IF BreaksLoop(_txResps, getHardwareTime)
       THEN LET resp == _txResps[1]
            IN  /\ \E timeNs \in (IF resp.timeNs = Uninitialized THEN JunkNs ELSE {resp.timeNs}) :
                      last' = Call("readStreamStatus", SOAPY_SDR_TX, 0, {}, resp.code,
                                   FALSE, TRUE, resp.flags, timeNs, <<>>)
                /\ _txResps' = Tail(_txResps)
                /\ delivered' = ~delivered
                /\ poll' = NoPoll
       ELSE /\ poll' = [poll EXCEPT !.pc = "sleep", !.sleep = SleepFor(poll.timeLeft)]
            /\ UNCHANGED <<_txResps, delivered, last>>
    /\ UNCHANGED <<session, streams, _sample_format, sessionFormat, rxVars, _inTxBurst, _txChans,
                   _txFloats, _txBuffSize, _txNextTicks, devTxBurst, hwTicks>>

\* the sleep is over: the deadline is tested, and the loop entered again
statusWake ==
    /\ poll.pc = "sleep"
    /\ poll.sleep = 0
    /\ IF DeadlinePassed(poll.timeLeft)
       THEN /\ last' = Call("readStreamStatus", SOAPY_SDR_TX, 0, {}, SOAPY_SDR_TIMEOUT,
                            FALSE, FALSE, {}, 0, <<>>)
            /\ poll' = NoPoll
       ELSE /\ poll' = [poll EXCEPT !.pc = "check"]
            /\ UNCHANGED last
    /\ UNCHANGED <<session, streams, _sample_format, sessionFormat, rxVars, txVars, hwTicks, delivered>>

\* the wall clock advances by a polling interval while a call is in progress
WallTick ==
    /\ poll.pc # "idle"
    /\ poll' = [poll EXCEPT !.timeLeft = IF @ >= 0 THEN @ - 1 ELSE @,
                            !.sleep = IF @ >= 1 THEN @ - 1 ELSE @]
    /\ UNCHANGED <<session, streams, _sample_format, sessionFormat, rxVars, txVars, hwTicks, delivered, last>>

\* the device's tick counter advances
HwTick ==
    /\ hwTicks < MaxHwTicks
    /\ hwTicks' = hwTicks + 1
    /\ UNCHANGED <<session, streams, _sample_format, sessionFormat, rxVars, txVars, poll, delivered, last>>

(***************************************************************************)
(* The specifications.  No call on a stream of one direction reads or      *)
(* writes the state of the other direction (but for _sample_format, which  *)
(* setupStream assigns for either), so an engine instance is followed      *)
(* through the sessions of one direction: Spec follows either direction,   *)
(* SpecRx the receive direction alone and SpecTx the transmit direction.   *)
(***************************************************************************)
NextRx ==
    \/ setupStream(SOAPY_SDR_RX)
    \/ closeStream(SOAPY_SDR_RX)
    \/ activateStreamRx
    \/ deactivateStreamRx
    \/ readStream
    \/ readStreamStatusRx

NextTx ==
    \/ setupStream(SOAPY_SDR_TX)
    \/ closeStream(SOAPY_SDR_TX)
    \/ activateStreamTx
    \/ deactivateStreamTx
    \/ writeStream

Next == NextRx \/ NextTx

Spec == Init /\ [][Next]_vars

SpecRx == Init /\ [][NextRx]_vars

SpecTx == Init /\ [][NextTx]_vars

\* An engine instance with a stream of each direction: the setups and closes
\* of both, and the receive calls.
NextBoth ==
    \/ setupStream(SOAPY_SDR_RX)
    \/ closeStream(SOAPY_SDR_RX)
    \/ setupStream(SOAPY_SDR_TX)
    \/ closeStream(SOAPY_SDR_TX)
    \/ activateStreamRx
    \/ readStream

SpecBoth == InitBoth /\ [][NextBoth]_vars

\* the stream configuration the status polls are followed with
StatusSetupArgs == {<<"absent", <<>>, SOAPY_SDR_CS16>>}

\* the writes the status polls are followed with: one-element bursts
StatusWriteFlags == {{SOAPY_SDR_END_BURST}}

\* The status polls of either direction, with the writes that queue the events
\* (a burst-end event with a time, and an underflow event without one when the
\* device reports underrun) and the two clocks.
NextStatus ==
    \/ setupStreamOf(SOAPY_SDR_RX, StatusSetupArgs)
    \/ readStreamStatusRx
    \/ setupStreamOf(SOAPY_SDR_TX, StatusSetupArgs)
    \/ writeStreamOf({1}, StatusWriteFlags)
    \/ statusBegin
    \/ statusCheck
    \/ statusWake
    \/ WallTick
    \/ HwTick

SpecStatus == Init /\ [][NextStatus]_vars

\* The clocks keep advancing, a call in progress keeps running, and the caller
\* keeps polling.
LiveStatus ==
    /\ SpecStatus
    /\ WF_vars(WallTick)
    /\ WF_vars(HwTick)
    /\ WF_vars(statusCheck)
    /\ WF_vars(statusWake)
    /\ WF_vars(statusBegin)

\* An engine instance with a stream of each direction: the writes that queue
\* status events, the polls that take them (with no time to wait), and the
\* other calls on the TX stream; on the RX stream, which is given no command,
\* the reads.
NextQueue ==
    \/ setupStreamOf(SOAPY_SDR_RX, StatusSetupArgs)
    \/ readStreamOf({1})
    \/ setupStreamOf(SOAPY_SDR_TX, StatusSetupArgs)
    \/ closeStream(SOAPY_SDR_TX)
    \/ activateStreamTx
    \/ deactivateStreamTx
    \/ writeStreamOf({1}, ControlFlags)
    \/ statusBeginOf({0})
    \/ statusCheck
    \/ statusWake
    \/ WallTick
    \/ HwTick

SpecQueue == InitBoth /\ [][NextQueue]_vars

(***************************************************************************)
(* Properties.  A step of a call is recognised by the record it leaves in  *)
(* last'; the unprimed variables are the state the call started in.        *)
(***************************************************************************)
IsRead == last'.op = "readStream"
IsWrite == last'.op = "writeStream"
IsActivate(dir) == last'.op = "activateStream" /\ last'.dir = dir
IsDeactivate(dir) == last'.op = "deactivateStream" /\ last'.dir = dir
\* the call removed the head command
Popped == Len(_rxCmds') < Len(_rxCmds)
\* a device result that is neither success, timeout nor time-past
HardError(ret) == ret \notin {BLADERF_OK, BLADERF_ERR_TIMEOUT, BLADERF_ERR_TIME_PAST}

\* C1 (as amended): a read against a finite head command (activated with count
\* N > 0, of which got elements were consumed so far) asks the device for no
\* more than the remaining count N - got; a successful read that receives ret
\* elements leaves the remaining count N - got - ret, and removes the command
\* exactly when got + ret = N; a failed read keeps the command and its count,
\* except that a device error other than timeout and time-past removes it
\* with its remaining count abandoned.  A read never removes a continuous head
\* (count 0), whatever the device outcome: only deactivateStream removes it.
C1_ReadStep ==
    LET head == _rxCmds[1]
        log == cmdLog[1]
        r == last'
    IN  /\ (head.numElems > 0) <=> (log.count > 0)
        /\ IF head.numElems > 0
           THEN /\ head.numElems = log.count - log.got
                /\ r.dev # <<>> => r.dev[1].n <= head.numElems * Len(_rxChans)
                /\ r.ret >= 0 =>
                      IF log.got + r.ret = log.count
                      THEN _rxCmds' = Tail(_rxCmds)
                      ELSE /\ Len(_rxCmds') = Len(_rxCmds)
                           /\ _rxCmds'[1].numElems = head.numElems - r.ret
                           /\ Tail(_rxCmds') = Tail(_rxCmds)
                /\ r.ret < 0 =>
                      IF r.ret = SOAPY_SDR_STREAM_ERROR
                      THEN _rxCmds' = Tail(_rxCmds)
                      ELSE /\ Len(_rxCmds') = Len(_rxCmds)
                           /\ _rxCmds'[1].numElems = head.numElems
                           /\ Tail(_rxCmds') = Tail(_rxCmds)
           ELSE /\ Len(_rxCmds') = Len(_rxCmds)
                /\ _rxCmds'[1].numElems = 0
                /\ Tail(_rxCmds') = Tail(_rxCmds)

\* C1: the consumption rule above holds of every read against a queued
\* command, and a continuous command leaves the queue by deactivateStream only.
C1_RxConsumption ==
    [][/\ (IsRead /\ _rxCmds # <<>>) => C1_ReadStep
       /\ (_rxCmds # <<>> /\ cmdLog[1].count = 0 /\ Popped) => IsDeactivate(SOAPY_SDR_RX)]_vars

\* C1 as stated: a read removes a finite command only when the reads against it
\* have together consumed its N elements, not earlier.
C1_RemovedOnlyWhenConsumed ==
    (last.op = "readStream" /\ last.removed # <<>>)
        => last.removed[1].got = last.removed[1].count

\* a command longer than a buffer was consumed by several reads and removed by
\* the last of them
C1_Witness ==
    /\ last.op = "readStream"
    /\ last.ret >= 1
    /\ last.removed # <<>>
    /\ last.removed[1].count = MaxBuffLen + 1
    /\ last.removed[1].got = last.removed[1].count

\* C2: a read made while an overrun reported by the device is pending returns
\* the overflow result with HAS_TIME and the next-expected RX tick in
\* nanoseconds, makes no device call and clears the overflow flag.
C2_NextReadReportsOverflow ==
    [][(IsRead /\ _rxOverflow) =>
          /\ last'.ret = SOAPY_SDR_OVERFLOW
          /\ last'.flags = {SOAPY_SDR_HAS_TIME}
          /\ last'.timeNs = _rxTicksToTimeNs(_rxNextTicks)
          /\ last'.dev = <<>>
          /\ ~_rxOverflow']_vars

\* C5: once the head command is continuous, the queue holds no second
\* continuous command.
C5_OneContinuousCommand ==
    (_rxCmds # <<>> /\ _rxCmds[1].numElems = 0)
        => \A i \in 2..Len(_rxCmds) : _rxCmds[i].numElems # 0

\* C7: a read with an empty command queue returns the timeout result, makes no
\* device call and changes no RX state; deactivateStream with zero flags
\* empties the queue whatever it holds; and the queue, once empty, stays empty
\* until the next activateStream, so every read in between times out.
C7_EmptyQueueTimesOut ==
    [][/\ (IsRead /\ _rxCmds = <<>>) =>
             /\ last'.ret = SOAPY_SDR_TIMEOUT
             /\ last'.dev = <<>>
             /\ ~last'.wrote
             /\ UNCHANGED rxVars
       /\ (IsDeactivate(SOAPY_SDR_RX) /\ last'.inFlags = {}) => _rxCmds' = <<>>
       /\ (_rxCmds = <<>> /\ ~IsActivate(SOAPY_SDR_RX)) => _rxCmds' = <<>>]_vars

\* a read timed out on the empty queue, with an overflow still pending
C7_Witness ==
    /\ last.op = "readStream"
    /\ last.ret = SOAPY_SDR_TIMEOUT
    /\ last.dev = <<>>
    /\ _rxCmds = <<>>
    /\ _rxOverflow

\* C10: a device receive error other than timeout and time-past makes the read
\* return the stream-error result; a finite head command is removed, a
\* continuous head command stays at the head (count 0, same time) with the
\* rest of the queue behind it.
C10_HardReceiveError ==
    [][(IsRead /\ last'.dev # <<>> /\ HardError(last'.dev[1].ret)) =>
          /\ last'.ret = SOAPY_SDR_STREAM_ERROR
          /\ IF _rxCmds[1].numElems > 0
             THEN _rxCmds' = Tail(_rxCmds)
             ELSE /\ Len(_rxCmds') = Len(_rxCmds)
                  /\ _rxCmds'[1].numElems = 0
                  /\ _rxCmds'[1].timeNs = _rxCmds[1].timeNs
                  /\ Tail(_rxCmds') = Tail(_rxCmds)]_vars

\* a partly consumed finite command was abandoned by a device error
C10_Witness ==
    /\ last.op = "readStream"
    /\ last.ret = SOAPY_SDR_STREAM_ERROR
    /\ last.removed # <<>>
    /\ last.removed[1].got >= 1
    /\ last.removed[1].got < last.removed[1].count

\* C3: a write that succeeds unclipped with no underrun reported leaves the
\* burst open and the status queue as it was when it carries no end-of-burst
\* flag; when it carries the flag it leaves the burst closed and has appended
\* exactly one status event, with the burst-end and has-time flags and code 0.
\* So of a run of such writes of which only the last carries the flag, every
\* one but the last leaves the burst open and the last adds the single event.
C3_BurstLifeCycle ==
    [][(/\ IsWrite
        /\ last'.ret >= 0
        /\ last'.req <= _txBuffSize
        /\ last'.dev[1].status = {}) =>
          IF SOAPY_SDR_END_BURST \in last'.inFlags
          THEN /\ ~_inTxBurst'
               /\ Len(_txResps') = Len(_txResps) + 1
               /\ SubSeq(_txResps', 1, Len(_txResps)) = _txResps
               /\ _txResps'[Len(_txResps')].flags = {SOAPY_SDR_END_BURST, SOAPY_SDR_HAS_TIME}
               /\ _txResps'[Len(_txResps')].code = 0
          ELSE /\ _inTxBurst'
               /\ _txResps' = _txResps]_vars

\* a burst started "now" at the device's tick, continued, and ended by a
\* one-element write: its single event is stamped three elements after the start
C3_Witness ==
    /\ last.op = "writeStream"
    /\ last.inFlags = {SOAPY_SDR_END_BURST}
    /\ last.req = 1
    /\ last.ret = 1
    /\ last.dev[1].status = {}
    /\ BLADERF_META_FLAG_TX_BURST_START \notin last.dev[1].flags
    /\ ~_inTxBurst
    /\ Len(_txResps) = 1
    /\ _txResps[1].flags = {SOAPY_SDR_END_BURST, SOAPY_SDR_HAS_TIME}
    /\ _txResps[1].timeNs = _txTicksToTimeNs(hwTicks + 3)

\* C4: a write that asks for more elements than the TX buffer holds and carries
\* the end-of-burst flag: the flag is cleared in the caller's flags, the device
\* call carries no burst-end directive and a buffer's worth of samples, a
\* successful call returns the buffer length, leaves the burst open and
\* appends no burst-end event; a failed call appends nothing.
C4_ClippedEndOfBurst ==
    [][(/\ IsWrite
        /\ last'.req > _txBuffSize
        /\ SOAPY_SDR_END_BURST \in last'.inFlags) =>
          /\ SOAPY_SDR_END_BURST \notin last'.flags
          /\ Len(last'.dev) = 1
          /\ BLADERF_META_FLAG_TX_BURST_END \notin last'.dev[1].flags
          /\ last'.dev[1].n = _txBuffSize * Len(_txChans)
          /\ SubSeq(_txResps', 1, Len(_txResps)) = _txResps
          /\ \A i \in (Len(_txResps) + 1)..Len(_txResps') :
                SOAPY_SDR_END_BURST \notin _txResps'[i].flags
          /\ IF last'.ret >= 0
             THEN last'.ret = _txBuffSize /\ _inTxBurst'
             ELSE _txResps' = _txResps /\ _inTxBurst' = _inTxBurst]_vars

\* a clipped end-of-burst write succeeded and the burst is open
C4_Witness ==
    /\ last.op = "writeStream"
    /\ last.req > _txBuffSize
    /\ SOAPY_SDR_END_BURST \in last.inFlags
    /\ last.ret = _txBuffSize
    /\ _inTxBurst
    /\ _txResps = <<>>

\* C6: burst-start is sent to the device exactly when the burst-open flag is
\* false, and only when the device has no burst open that was not ended.
C6_OneOpenBurst ==
    [][IsWrite =>
          /\ (BLADERF_META_FLAG_TX_BURST_START \in last'.dev[1].flags) <=> ~_inTxBurst
          /\ (BLADERF_META_FLAG_TX_BURST_START \in last'.dev[1].flags) => ~devTxBurst]_vars

\* C8: activateStream on a TX stream and deactivateStream on either direction,
\* given a non-zero flag word, return the unsupported result, make no device
\* call and change no stream state; activateStream on an RX stream appends one
\* command built from its arguments at the tail of the queue and returns 0,
\* whatever the flags.
C8_UnsupportedFlags ==
    [][/\ IsActivate(SOAPY_SDR_TX) =>
             /\ last'.ret = (IF last'.inFlags # {} THEN SOAPY_SDR_NOT_SUPPORTED ELSE 0)
             /\ last'.dev = <<>>
             /\ UNCHANGED <<streams, _sample_format, sessionFormat, rxVars, txVars>>
       /\ (last'.op = "deactivateStream" /\ last'.inFlags # {}) =>
             /\ last'.ret = SOAPY_SDR_NOT_SUPPORTED
             /\ last'.dev = <<>>
             /\ UNCHANGED <<streams, _sample_format, sessionFormat, rxVars, txVars>>
       /\ IsActivate(SOAPY_SDR_RX) =>
             /\ last'.ret = 0
             /\ Len(_rxCmds') = Len(_rxCmds) + 1
             /\ SubSeq(_rxCmds', 1, Len(_rxCmds)) = _rxCmds
             /\ _rxCmds'[Len(_rxCmds')].flags = last'.inFlags
             /\ _rxCmds'[Len(_rxCmds')].numElems = last'.req
             /\ UNCHANGED <<streams, _sample_format, txVars, _rxOverflow, _rxNextTicks>>]_vars

\* deactivateStream was refused on a TX stream whose burst is open
C8_Witness ==
    /\ last.op = "deactivateStream"
    /\ last.dir = SOAPY_SDR_TX
    /\ last.inFlags # {}
    /\ last.ret = SOAPY_SDR_NOT_SUPPORTED
    /\ _inTxBurst

\* C9: deactivateStream with zero flags on a TX stream returns 0 and leaves
\* the burst closed; with a burst open it makes exactly one device call, the
\* burst-end transmission of one zeroed sample, whose result is ignored; with
\* no burst open it makes no device call.
C9_DeactivateEndsBurst ==
    [][(IsDeactivate(SOAPY_SDR_TX) /\ last'.inFlags = {}) =>
          /\ last'.ret = 0
          /\ ~_inTxBurst'
          /\ IF _inTxBurst
             THEN /\ Len(last'.dev) = 1
                  /\ last'.dev[1].fn = "bladerf_sync_tx"
                  /\ last'.dev[1].n = 1
                  /\ last'.dev[1].flags = {BLADERF_META_FLAG_TX_BURST_END}
                  /\ last'.dev[1].timestamp = 0
             ELSE last'.dev = <<>>]_vars

\* the burst-end transmission failed and the burst is closed all the same
C9_Witness ==
    /\ last.op = "deactivateStream"
    /\ last.ret = 0
    /\ Len(last.dev) = 1
    /\ last.dev[1].ret # BLADERF_OK
    /\ ~_inTxBurst

C12_FormatFixedPerSession ==
    /\ \A d \in streams : _sample_format = sessionFormat[d]
    /\ (last.op = "readStream" /\ last.conv # 0) =>
            last.conv = NativeWidth(sessionFormat[SOAPY_SDR_RX])

\* C13: the device call of a read or a write is for no more elements than the
\* caller asked for and than the buffer length set at setup (which no read or
\* write changes), and for a read against a finite command no more than its
\* remaining count; so it passes no more than buffer length x channel count
\* samples, within the conversion buffer of buffer length x 2 x channel count
\* native elements; and a positive result is no more than the request.
C13_Clipping ==
    [][/\ (IsRead \/ IsWrite) =>
             /\ UNCHANGED <<_rxBuffSize, _txBuffSize, _rxChans, _txChans>>
             /\ last'.ret > 0 => last'.ret <= last'.req
       /\ (IsRead /\ last'.dev # <<>>) =>
             /\ Len(last'.dev) = 1
             /\ last'.dev[1].n <= last'.req * Len(_rxChans)
             /\ last'.dev[1].n <= _rxBuffSize * Len(_rxChans)
             /\ 2 * last'.dev[1].n <= _rxBuffSize * 2 * Len(_rxChans)
             /\ _rxCmds[1].numElems > 0 =>
                    last'.dev[1].n <= _rxCmds[1].numElems * Len(_rxChans)
       /\ IsWrite =>
             /\ Len(last'.dev) = 1
             /\ last'.dev[1].n <= last'.req * Len(_txChans)
             /\ last'.dev[1].n <= _txBuffSize * Len(_txChans)
             /\ 2 * last'.dev[1].n <= _txBuffSize * 2 * Len(_txChans)]_vars

\* a read that asked for more than a buffer against a command with more than
\* a buffer left received a full buffer on two channels
C13_Witness ==
    /\ last.op = "readStream"
    /\ last.req > _rxBuffSize
    /\ last.ret = _rxBuffSize
    /\ Len(_rxChans) = 2
    /\ last.dev[1].n = _rxBuffSize * 2
    /\ _rxCmds # <<>>
    /\ _rxCmds[1].numElems = 1

\* C14: a device receive call carries the command's timestamp without the
\* receive-now flag exactly when the command was activated with the has-time
\* flag and no device receive call was made against it before; every other
\* device receive call carries the receive-now flag.
C14_ReceiveTimeAppliedOnce ==
    [][(IsRead /\ last'.dev # <<>>) =>
          IF cmdLog[1].timed /\ ~cmdLog[1].called
          THEN /\ BLADERF_META_FLAG_RX_NOW \notin last'.dev[1].flags
               /\ last'.dev[1].timestamp = _timeNsToRxTicks(_rxCmds[1].timeNs)
               /\ _rxCmds[1].timeNs = TimeOf({SOAPY_SDR_HAS_TIME})
          ELSE BLADERF_META_FLAG_RX_NOW \in last'.dev[1].flags]_vars

\* a timed command, its time used by an earlier device call that received
\* nothing, was received from "now"
C14_Witness ==
    /\ last.op = "readStream"
    /\ last.ret > 0
    /\ BLADERF_META_FLAG_RX_NOW \in last.dev[1].flags
    /\ cmdLog # <<>>
    /\ cmdLog[1].timed
    /\ cmdLog[1].called
    /\ cmdLog[1].got = last.ret

\* C15: a read that returns timeout, time-in-past or overflow leaves the
\* length of the command queue, the remaining count of every queued command
\* and the RX next-expected tick as they were; a device timeout gives the
\* timeout result and a device time-past the time-in-past result.
C15_NothingConsumed ==
    [][/\ (IsRead /\ last'.ret \in {SOAPY_SDR_TIMEOUT, SOAPY_SDR_TIME_ERROR, SOAPY_SDR_OVERFLOW}) =>
             /\ Len(_rxCmds') = Len(_rxCmds)
             /\ \A i \in 1..Len(_rxCmds) : _rxCmds'[i].numElems = _rxCmds[i].numElems
             /\ \A i \in 1..Len(_rxCmds) : _rxCmds'[i].timeNs = _rxCmds[i].timeNs
             /\ _rxNextTicks' = _rxNextTicks
       /\ (IsRead /\ last'.dev # <<>> /\ last'.dev[1].ret = BLADERF_ERR_TIMEOUT) =>
             last'.ret = SOAPY_SDR_TIMEOUT
       /\ (IsRead /\ last'.dev # <<>> /\ last'.dev[1].ret = BLADERF_ERR_TIME_PAST) =>
             last'.ret = SOAPY_SDR_TIME_ERROR
       /\ (IsRead /\ _rxCmds = <<>>) => last'.ret = SOAPY_SDR_TIMEOUT
       /\ (IsRead /\ last'.ret = SOAPY_SDR_OVERFLOW) => last'.dev = <<>>]_vars

\* the device found the time of a partly received finite command in the
\* past: the command keeps what remained of its count
C15_Witness ==
    /\ last.op = "readStream"
    /\ last.ret = SOAPY_SDR_TIME_ERROR
    /\ _rxCmds # <<>>
    /\ cmdLog[1].got >= 1
    /\ _rxCmds[1].numElems = cmdLog[1].count - cmdLog[1].got
    /\ _rxNextTicks > 0

\* the status events a write appended
NewResps == SubSeq(_txResps', Len(_txResps) + 1, Len(_txResps'))
\* the positions among them of the underflow events
NewUnderflows == {i \in 1..Len(NewResps) : NewResps[i].code = SOAPY_SDR_UNDERFLOW}

\* C16: a successful write for which the device reports underrun appends
\* exactly one status event with code underflow and without the has-time flag,
\* returns the element count it transmitted and leaves the burst-open flag as
\* a write without underrun would (open, unless the write ended the burst);
\* when the write also ends the burst the underflow event comes first and the
\* burst-end event second.  A write without underrun, and a failed write,
\* append no underflow event.
C16_UnderflowNotification ==
    [][IsWrite =>
          /\ Len(_txResps') >= Len(_txResps)
          /\ SubSeq(_txResps', 1, Len(_txResps)) = _txResps
          /\ IF last'.ret >= 0 /\ BLADERF_META_STATUS_UNDERRUN \in last'.dev[1].status
             THEN /\ NewUnderflows = {1}
                  /\ SOAPY_SDR_HAS_TIME \notin NewResps[1].flags
                  /\ last'.ret = Min(last'.req, _txBuffSize)
                  /\ last'.ret * Len(_txChans) = last'.dev[1].n
                  /\ _inTxBurst' = (SOAPY_SDR_END_BURST \notin last'.flags)
                  /\ Len(NewResps) = (IF SOAPY_SDR_END_BURST \in last'.flags THEN 2 ELSE 1)
                  /\ SOAPY_SDR_END_BURST \in last'.flags =>
                        /\ NewResps[2].code = 0
                        /\ SOAPY_SDR_END_BURST \in NewResps[2].flags
             ELSE NewUnderflows = {}]_vars

\* a write that ended its burst while the device reported underrun: the
\* underflow event is the older of the two events, the burst is closed
C16_Witness ==
    /\ last.op = "writeStream"
    /\ last.ret = 1
    /\ SOAPY_SDR_END_BURST \in last.flags
    /\ BLADERF_META_STATUS_UNDERRUN \in last.dev[1].status
    /\ ~_inTxBurst
    /\ Len(_txResps) = 2
    /\ _txResps[1].code = SOAPY_SDR_UNDERFLOW
    /\ _txResps[1].flags = {}
    /\ SOAPY_SDR_END_BURST \in _txResps[2].flags

\* the tick a write's device call anchors the burst at, when the call is a
\* burst start or a timestamp update: the device's current tick for
\* transmit-now, the timestamp passed otherwise
TxAnchors ==
    {IF BLADERF_META_FLAG_TX_NOW \in last'.dev[1].flags THEN hwTicks ELSE last'.dev[1].timestamp :
        x \in {f \in {BLADERF_META_FLAG_TX_BURST_START, BLADERF_META_FLAG_TX_UPDATE_TIMESTAMP} :
                    f \in last'.dev[1].flags}}

\* C17: the TX next-expected tick is the burst's start tick (the caller's
\* explicit time, or the device's current tick for transmit-now) or the latest
\* timestamp update accepted in the burst, plus the number of elements
\* successfully sent since: a write that fails leaves it as it was, a write
\* that succeeds sets it to the tick its call anchored the burst at, or else to
\* its former value, plus the count sent; and the burst-end event a write
\* appends carries this tick converted to nanoseconds.
C17_TxNextTick ==
    [][IsWrite =>
          IF last'.ret < 0
          THEN _txNextTicks' = _txNextTicks
          ELSE /\ \E base \in (IF TxAnchors = {} THEN {_txNextTicks} ELSE TxAnchors) :
                     _txNextTicks' = base + last'.ret
               /\ SOAPY_SDR_END_BURST \in last'.flags =>
                     _txResps'[Len(_txResps')].timeNs = _txTicksToTimeNs(_txNextTicks')]_vars

\* C19: a command activated with a count N > 0 has, as long as it is queued,
\* a remaining count between 1 and N (N less what the reads against it
\* received), so it is never taken for a continuous command; a command
\* activated with count 0 stays at 0.  The device reports no more elements
\* than it was asked for.
C19_FiniteStaysFinite ==
    /\ Len(cmdLog) = Len(_rxCmds)
    /\ \A i \in 1..Len(_rxCmds) :
          IF cmdLog[i].count > 0
          THEN /\ _rxCmds[i].numElems >= 1
               /\ _rxCmds[i].numElems <= cmdLog[i].count
               /\ _rxCmds[i].numElems = cmdLog[i].count - cmdLog[i].got
          ELSE _rxCmds[i].numElems = 0

\* a read against a command of more than a buffer's length received part of
\* it: the command is still queued with what remains
C19_Witness ==
    /\ last.op = "readStream"
    /\ last.ret >= 1
    /\ _rxCmds # <<>>
    /\ cmdLog[1].count = MaxBuffLen + 1
    /\ cmdLog[1].got = last.ret
    /\ _rxCmds[1].numElems = cmdLog[1].count - last.ret

\* C20: a write whose device call fails (timeout, time-past or any other
\* error) returns an error and leaves the burst-open flag and the status queue
\* as they were.  So after a failed first write of a burst the stream is idle
\* and after a failed end-of-burst write inside a burst the burst is open and
\* no burst-end event was queued; and every write, a retry too, sends
\* burst-start exactly when the flag is false.
C20_FailedWrite ==
    [][IsWrite =>
          /\ (last'.dev[1].ret # BLADERF_OK) <=> (last'.ret < 0)
          /\ last'.ret < 0 =>
                /\ _inTxBurst' = _inTxBurst
                /\ _txResps' = _txResps
          /\ (BLADERF_META_FLAG_TX_BURST_START \in last'.dev[1].flags) <=> ~_inTxBurst]_vars

\* an end-of-burst write inside a burst failed: the burst is still open, no
\* event is queued
C20_Witness ==
    /\ last.op = "writeStream"
    /\ last.ret < 0
    /\ SOAPY_SDR_END_BURST \in last.flags
    /\ BLADERF_META_FLAG_TX_BURST_END \in last.dev[1].flags
    /\ BLADERF_META_FLAG_TX_BURST_START \notin last.dev[1].flags
    /\ _inTxBurst
    /\ _txResps = <<>>

\* the step by which a status poll on the TX stream returns
StatusReturns == poll.pc # "idle" /\ poll'.pc = "idle"
\* the step by which it returns an event
StatusDelivers == StatusReturns /\ last'.ret # SOAPY_SDR_TIMEOUT

\* C18: with the clocks advancing, every status poll on a TX stream returns;
\* while the caller keeps polling, a queued event is eventually delivered (the
\* oldest first, so every queued event is); and no poll returns an event when
\* the queue is empty.
C18_StatusPollLiveness ==
    /\ [](poll.pc # "idle" => <>(poll.pc = "idle"))
    /\ \A b \in BOOLEAN : (_txResps # <<>> /\ delivered = b) ~> (delivered # b)
    /\ [][StatusDelivers => _txResps # <<>>]_vars

\* a poll ran into its deadline while the oldest queued event, one with a
\* time the hardware had not reached, was waiting; an event had been delivered
\* to an earlier poll
C18_Witness ==
    /\ poll.pc = "idle"
    /\ last.op = "readStreamStatus"
    /\ last.dir = SOAPY_SDR_TX
    /\ last.ret = SOAPY_SDR_TIMEOUT
    /\ _txResps # <<>>
    /\ SOAPY_SDR_HAS_TIME \in _txResps[1].flags
    /\ ~(_txResps[1].timeNs < getHardwareTime)
    /\ delivered

\* the calls that have no part in the status queue
QueueBystanders == {"setupStream", "closeStream", "activateStream", "deactivateStream", "readStream"}

\* C21: the TX status queue grows only in a write that succeeded, at its tail
\* and by at most one underflow event and at most one burst-end event; it
\* shrinks only by a status poll that returns an event, which takes the oldest
\* one; every other step leaves it as it is.  In particular deactivateStream,
\* also when it ends an open burst on the device, neither queues a burst-end
\* event nor discards a queued one, and activateStream, readStream,
\* setupStream and closeStream do not change the queue.
C21_QueueOrigins ==
    [][/\ Len(_txResps') > Len(_txResps) =>
             /\ poll.pc = "idle" /\ poll'.pc = "idle"
             /\ last'.op = "writeStream"
             /\ last'.ret >= 0
             /\ last'.dev[1].ret = BLADERF_OK
             /\ SubSeq(_txResps', 1, Len(_txResps)) = _txResps
             /\ Len(NewResps) <= 2
             /\ Cardinality(NewUnderflows) <= 1
             /\ Cardinality({i \in 1..Len(NewResps) :
                                SOAPY_SDR_END_BURST \in NewResps[i].flags}) <= 1
             /\ \A i \in 1..Len(NewResps) :
                   \/ NewResps[i].code = SOAPY_SDR_UNDERFLOW
                   \/ SOAPY_SDR_END_BURST \in NewResps[i].flags
       /\ Len(_txResps') < Len(_txResps) =>
             /\ StatusDelivers
             /\ last'.op = "readStreamStatus"
             /\ _txResps' = Tail(_txResps)
       /\ Len(_txResps') = Len(_txResps) => _txResps' = _txResps
       /\ last'.op \in QueueBystanders => _txResps' = _txResps
       /\ (last'.op = "writeStream" /\ last'.ret < 0) => _txResps' = _txResps]_vars

\* deactivateStream ended an open burst on the device while an underflow event
\* was queued: the event is still there, and no burst-end event with it
C21_Witness ==
    /\ last.op = "deactivateStream"
    /\ last.dir = SOAPY_SDR_TX
    /\ Len(last.dev) = 1
    /\ last.dev[1].ret = BLADERF_OK
    /\ BLADERF_META_FLAG_TX_BURST_END \in last.dev[1].flags
    /\ ~_inTxBurst
    /\ Len(_txResps) = 1
    /\ _txResps[1].code = SOAPY_SDR_UNDERFLOW

====
